---- MODULE Spec2Model ----
(***************************************************************************)
(* Model of plugins/linkai/midjourney.py: the MJBot command dispatcher,    *)
(* the two job submissions (generate, upscale), the polling coroutine      *)
(* check_task and the result deliverer _process_success_task.              *)
(*                                                                         *)
(* Handler threads run process_mj_task; a handler blocks inside            *)
(* requests.post, so a dispatch is two steps: the validation up to the     *)
(* POST, and the handling of the response.  Polling coroutines run on the  *)
(* single event loop and interleave at their two awaits (the GET and the   *)
(* sleep).                                                                 *)
(***************************************************************************)
EXTENDS Integers, Sequences, FiniteSets, TLC

\* ------------------------------------------------------------------ bounds
\* HTTP submissions (POST /generate, POST /operate) in one run.
MaxPosts == 2
\* Poll responses other than FINISHED that the remote gives in one run of Spec.
MaxPolls == 1

\* --------------------------------------------------------------- constants
\* check_task: max_retry_time = 80
MaxRetryTime == 80
\* check_task: max_retry_time -= 20 on a non-200 poll response
ErrorPenalty == 20
\* process_mj_task: index < 1 or index > 4
MinIndex == 1
MaxIndex == 4

Threads == {"h1", "h2"}

\* Tokens are sequences of characters.
TriggerPrefix == "$"
Tok_mj == <<TriggerPrefix, "m", "j">>
Tok_MJ == <<TriggerPrefix, "M", "J">>
Tok_mju == <<TriggerPrefix, "m", "j", "u">>
Tok_mjx == <<TriggerPrefix, "m", "j", "x">>
Tok_hello == <<"h", "i">>
Tok_cat == <<"c", "a", "t">>
Tok_img == <<"A">>

IndexTokens ==
    { <<"0">>, <<"1">>, <<"2">>, <<"3">>, <<"4">>, <<"5">>,
      <<"-", "1">>, <<"x">>, <<"0", "2">> }

Contents ==
    { <<>>, <<Tok_hello>>, <<Tok_mjx, Tok_cat>>,
      <<Tok_mj>>, <<Tok_mj, Tok_cat>>, <<Tok_MJ, Tok_cat>>,
      <<Tok_mju>>, <<Tok_mju, Tok_img>> }
    \cup { <<Tok_mju, Tok_img, i>> : i \in IndexTokens }

\* context["session_id"]: the messages come from one chat session.
SessionId == "u1"

\* Incoming messages: the text messages above and one that is no text.
Messages ==
    { [type |-> "TEXT", content |-> c] : c \in Contents }
    \cup { [type |-> "IMAGE", content |-> <<Tok_mj, Tok_cat>>] }

\* The messages of Spec, where several submissions run at once: two of the
\* valid indexes instead of four.
FewMessages ==
    { m \in Messages :
        Len(m.content) < 3 \/ m.content[3] \notin {<<"3">>, <<"4">>, <<"0", "2">>} }

\* ------------------------------------------------------------------ replies
Reply(type, content) == [type |-> type, content |-> content]
\* Python's None where a Reply is expected.
NoReply == Reply("None", "None")

HelpReply == Reply("ERROR", "help text (verbose)")
MissingParamsReply == Reply("ERROR", "command is missing parameters")
IndexRangeReply == Reply("ERROR", "image index wrong, should be 1 to 4")
AlreadyUpscaledReply == Reply("ERROR", "image already upscaled")
NotSupportedReply == Reply("ERROR", "command not supported")
GenerateAckReply == Reply("INFO", "your work will be finished in 1~2 minutes")
UpscaleAckReply == Reply("INFO", "image is being upscaled")
FailedReply == Reply("ERROR", "image generation failed, try again later")
ImageIdReply == Reply("ERROR", "please enter a correct image ID")

VARIABLES
    enabled,      \* self.config.get("enabled")
    tasks,        \* self.tasks: task id -> MJTask
    temp_dict,    \* self.temp_dict: the keys set to True
    tasks_lock,   \* self.tasks_lock: the thread that holds it, "None" when free
    pc,           \* per handler thread: idle, or blocked in a POST
    args,         \* per handler thread: the arguments of the call in flight
    returned,     \* the dispatch that has just returned and whose reply the
                  \* framework has not taken yet: e_context's reply and
                  \* action, the exception that ended it, and the response
                  \* its POST got
    posts,        \* the remote: how many POSTs it got, per endpoint and body
    remote_next,  \* the remote: the next task id it hands out
    origin,       \* the remote: what each task id was created for
    coros,        \* event loop: the check_task coroutines, in scheduling order
    sent          \* channel: per task id, the replies channel._send got, in order

vars == <<enabled, tasks, temp_dict, tasks_lock, pc, args, returned, posts,
          remote_next, origin, coros, sent>>

\* ----------------------------------------------------------- pure helpers
LowerChar(ch) ==
    CASE ch = "M" -> "m"
      [] ch = "J" -> "j"
      [] ch = "U" -> "u"
      [] OTHER -> ch

\* str.lower()
Lower(tok) == [i \in DOMAIN tok |-> LowerChar(tok[i])]

Digits == {"0", "1", "2", "3", "4", "5", "6", "7", "8", "9"}

DigitVal(ch) ==
    CASE ch = "0" -> 0 [] ch = "1" -> 1 [] ch = "2" -> 2 [] ch = "3" -> 3
      [] ch = "4" -> 4 [] ch = "5" -> 5 [] ch = "6" -> 6 [] ch = "7" -> 7
      [] ch = "8" -> 8 [] ch = "9" -> 9

RECURSIVE DigitsVal(_)
DigitsVal(s) ==
    IF s = <<>> THEN 0
    ELSE DigitsVal(SubSeq(s, 1, Len(s) - 1)) * 10 + DigitVal(s[Len(s)])

\* int(token): an optional sign and at least one decimal digit, else ValueError.
ParseInt(tok) ==
    LET signed == Len(tok) > 0 /\ tok[1] \in {"-", "+"}
        body == IF signed THEN Tail(tok) ELSE tok
        ok == Len(body) > 0 /\ \A i \in DOMAIN body : body[i] \in Digits
    IN  IF ~ok THEN [ok |-> FALSE, val |-> 0]
        ELSE [ok |-> TRUE,
              val |-> IF tok[1] = "-" THEN 0 - DigitsVal(body)
                      ELSE DigitsVal(body)]

\* f"{TaskType.UPSCALE.name}_{img_id}_{index}"
UpscaleKey(img_id, index) == <<"UPSCALE", img_id, index>>

\* Python's None where text (a sequence) is expected.
NoText == <<>>

\* MJTask.__init__
MJTask(id, user_id, task_type, raw_prompt, status) ==
    [id |-> id, user_id |-> user_id, task_type |-> task_type,
     raw_prompt |-> raw_prompt, status |-> status,
     img_url |-> NoText, img_id |-> NoText]

\* dict[key] = value
Put(d, k, v) == [x \in DOMAIN d \cup {k} |-> IF x = k THEN v ELSE d[x]]

\* ------------------------------------------------------------- dispatcher
\* judge_mj_task_type: the task type of a message, "None" when it is no
\* command; cmd_list[0] of an empty split() raises IndexError.
judge_mj_task_type(ctype, content, is_enabled) ==
    IF ctype = "TEXT" /\ is_enabled
    THEN IF Len(content) = 0
         THEN [raised |-> "IndexError", type |-> "None"]
         ELSE IF Lower(content[1]) = <<TriggerPrefix>> \o <<"m", "j">>
              THEN [raised |-> "None", type |-> "GENERATE"]
              ELSE IF Lower(content[1]) = <<TriggerPrefix>> \o <<"m", "j", "u">>
                   THEN [raised |-> "None", type |-> "UPSCALE"]
                   ELSE [raised |-> "None", type |-> "None"]
    ELSE [raised |-> "None", type |-> "None"]

Outcome(kind, reply, img_id, index) ==
    [kind |-> kind, reply |-> reply, img_id |-> img_id, index |-> index]

\* Mutant: the index check lets 5 through.
IndexOutOfRangeOffByOne(index) == index < MinIndex \/ index > MaxIndex + 1

\* Mutant: the index is taken to count from 0.
IndexOutOfRangeZeroBased(index) == index < MinIndex - 1 \/ index > MaxIndex - 1

\* The index check of process_mj_task.
IndexOutOfRange(index) == index < MinIndex \/ index > MaxIndex

\* Mutant: the dedup check looks the key up without the index.
AlreadyMarkedNoIndex(dict, img_id, index) == <<"UPSCALE", img_id>> \in dict

\* The dedup check of process_mj_task: self.temp_dict.get(key).
AlreadyMarked(dict, img_id, index) == UpscaleKey(img_id, index) \in dict

\* process_mj_task up to its call of generate or upscale.  content is the
\* message split on whitespace: cmd = content.split(maxsplit=1) has one
\* element exactly when content is one token, and cmd[1].split() is the rest.
\* kind: "reply" (_set_reply_text), "raise" (uncaught exception),
\* "generate" / "upscale" (the submission is called).
process_mj_task(mj_type, content, dict) ==
    IF Len(content) = 1
    THEN Outcome("reply", HelpReply, <<>>, 0)
    ELSE IF mj_type = "GENERATE"
    THEN Outcome("generate", NoReply, <<>>, 0)
    ELSE IF mj_type = "UPSCALE"
    THEN LET clist == Tail(content)
         IN  IF Len(clist) < 2
             THEN Outcome("reply", MissingParamsReply, <<>>, 0)
             ELSE LET img_id == clist[1]
                      parsed == ParseInt(clist[2])
                      index == parsed.val
                  IN  IF ~parsed.ok
                      THEN Outcome("raise", NoReply, img_id, 0)
                      ELSE IF IndexOutOfRange(index)
                      THEN Outcome("reply", IndexRangeReply, img_id, index)
                      ELSE IF AlreadyMarked(dict, img_id, index)
                      THEN Outcome("reply", AlreadyUpscaledReply, img_id, index)
                      ELSE Outcome("upscale", NoReply, img_id, index)
    ELSE Outcome("reply", NotSupportedReply, <<>>, 0)

\* ------------------------------------------------------------- the remote
NoRes == [status_code |-> 0, code |-> 0]

\* What the remote answers to a POST: HTTP status and the body's code; a
\* task id is handed out with 200/200 only.
PostResponses ==
    { [status_code |-> 200, code |-> 200],
      [status_code |-> 200, code |-> 500],
      [status_code |-> 461, code |-> 461],
      [status_code |-> 500, code |-> 500] }

Accepted(r) == r.status_code = 200 /\ r.code = 200

\* What the remote answers to GET /tasks/{id}.
PollResponses ==
    { [status |-> 200, data |-> "FINISHED"],
      [status |-> 200, data |-> "RUNNING"],
      [status |-> 200, data |-> "None"],
      [status |-> 500, data |-> "None"] }

\* ------------------------------------------------------------- submission
\* Mutant: the handler takes the future's result(), so that the coroutine
\* has run to its end when the submission returns.
NewCoroAwaited(id) ==
    [task |-> id, pc |-> "finished", max_retry_time |-> MaxRetryTime,
     nerr |-> 0, nwait |-> 0]

\* check_task(task, e_context) as it is handed to the event loop: not started.
NewCoro(id) ==
    [task |-> id, pc |-> "get", max_retry_time |-> MaxRetryTime,
     nerr |-> 0, nwait |-> 0]

\* Mutant: the coroutine is handed to the loop twice.
ScheduleTwice(cs, id) == Append(Append(cs, NewCoro(id)), NewCoro(id))

\* asyncio.run_coroutine_threadsafe(self.check_task(task, e_context), loop)
\* returns a future at once; nothing waits for it.
Schedule(cs, id) == Append(cs, NewCoro(id))

\* The reply generate returns for response r.
generate_reply(r) ==
    IF r.status_code = 200
    THEN IF r.code = 200 THEN GenerateAckReply ELSE NoReply
    ELSE FailedReply

\* The reply upscale returns for response r.
upscale_reply(r) ==
    IF r.status_code = 200
    THEN IF r.code = 200 THEN UpscaleAckReply ELSE NoReply
    ELSE IF r.status_code = 461 THEN ImageIdReply ELSE FailedReply

\* The condition under which generate registers and schedules.
generate_ok(r) == r.status_code = 200 /\ r.code = 200

\* Mutant: upscale registers, marks and schedules whatever the response.
upscale_ok_always(r) == TRUE

\* The condition under which upscale registers, marks and schedules.
upscale_ok(r) == r.status_code = 200 /\ r.code = 200

\* What the success block of upscale writes: the registry, the dedup marks
\* and the event loop's coroutines.
Shared(ts, dict, cs) == [tasks |-> ts, temp_dict |-> dict, coros |-> cs]

\* Mutant: the key is marked before the task is registered.
upscale_success_mark_first(sh, task, key) ==
    LET s1 == [sh EXCEPT !.temp_dict = @ \cup {key}]
        s2 == [s1 EXCEPT !.tasks = Put(@, task.id, task)]
        s3 == [s2 EXCEPT !.coros = Schedule(@, task.id)]
    IN  <<sh, s1, s2, s3>>

\* The success block of upscale, statement by statement, in the order of the
\* source: self.tasks[task.id] = task; self.temp_dict[key] = True;
\* run_coroutine_threadsafe(...).
upscale_success(sh, task, key) ==
    LET s1 == [sh EXCEPT !.tasks = Put(@, task.id, task)]
        s2 == [s1 EXCEPT !.temp_dict = @ \cup {key}]
        s3 == [s2 EXCEPT !.coros = Schedule(@, task.id)]
    IN  <<sh, s1, s2, s3>>

\* ------------------------------------------------------------------- state
NoArgs == [prompt |-> <<>>, img_id |-> <<>>, index |-> 0]

\* What a dispatch left behind when it returned.
Returned(reply, action, raised, r) ==
    [reply |-> reply, action |-> action, exc |-> raised, res |-> r]

\* One more POST of this url and body.
Posted(bag, url, body) ==
    LET k == <<url, body>>
    IN  Put(bag, k, IF k \in DOMAIN bag THEN bag[k] + 1 ELSE 1)

RECURSIVE BagSize(_)
BagSize(bag) ==
    IF DOMAIN bag = {} THEN 0
    ELSE LET k == CHOOSE x \in DOMAIN bag : TRUE
         IN  bag[k] + BagSize([x \in DOMAIN bag \ {k} |-> bag[x]])

NoReturn == Returned(NoReply, "CONTINUE", "None", NoRes)

\* MJBot.__init__
Init ==
    /\ enabled \in BOOLEAN
    /\ tasks = <<>>
    /\ temp_dict = {}
    /\ tasks_lock = "None"
    /\ pc = [h \in Threads |-> "idle"]
    /\ args = [h \in Threads |-> NoArgs]
    /\ returned = NoReturn
    /\ posts = <<>>
    /\ remote_next = 1
    /\ origin = <<>>
    /\ coros = <<>>
    /\ sent = <<>>

\* ----------------------------------------------------------------- handler
\* One incoming message on handler thread h: the plugin asks
\* judge_mj_task_type and, for a task type, calls process_mj_task, which
\* either ends the dispatch or enters generate / upscale and blocks in the
\* POST.  The framework takes the reply of one dispatch before the next
\* message is handed to the plugin.
HandleMessage(h, ctype, content) ==
    /\ pc[h] = "idle"
    /\ returned = NoReturn
    /\ UNCHANGED <<enabled, tasks, temp_dict, tasks_lock, remote_next, origin,
                   coros, sent>>
    /\ LET j == judge_mj_task_type(ctype, content, enabled)
           o == process_mj_task(j.type, content, temp_dict)
       IN  IF j.raised # "None"
           THEN /\ returned' = Returned(NoReply, "CONTINUE", j.raised, NoRes)
                /\ UNCHANGED <<pc, args, posts>>
           ELSE IF j.type = "None"
           THEN /\ returned' = Returned(NoReply, "CONTINUE", "None", NoRes)
                /\ UNCHANGED <<pc, args, posts>>
           ELSE IF o.kind = "reply"
           THEN /\ returned' = Returned(o.reply, "BREAK_PASS", "None", NoRes)
                /\ UNCHANGED <<pc, args, posts>>
           ELSE IF o.kind = "raise"
           THEN /\ returned' = Returned(NoReply, "CONTINUE", "ValueError", NoRes)
                /\ UNCHANGED <<pc, args, posts>>
           ELSE IF o.kind = "generate"
           THEN /\ BagSize(posts) < MaxPosts
                /\ pc' = [pc EXCEPT ![h] = "generate_post"]
                /\ args' = [args EXCEPT ![h] = [NoArgs EXCEPT !.prompt = Tail(content)]]
                /\ posts' = Posted(posts, "/generate", <<Tail(content)>>)
                /\ UNCHANGED returned
           ELSE /\ BagSize(posts) < MaxPosts
                /\ pc' = [pc EXCEPT ![h] = "upscale_post"]
                /\ args' = [args EXCEPT ![h] = [NoArgs EXCEPT !.img_id = o.img_id,
                                                              !.index = o.index]]
                /\ posts' = Posted(posts, "/operate", UpscaleKey(o.img_id, o.index))
                /\ UNCHANGED returned

\* generate, from the response of POST /generate to its return.  Nothing in
\* it acquires tasks_lock.
generate(h, r) ==
    /\ pc[h] = "generate_post"
    /\ LET id == IF Accepted(r) THEN remote_next ELSE 0
           task == MJTask(id, SessionId, "GENERATE", args[h].prompt, "PENDING")
       IN  /\ remote_next' = IF Accepted(r) THEN remote_next + 1 ELSE remote_next
           /\ origin' = IF Accepted(r) THEN Put(origin, id, <<args[h].prompt>>)
                        ELSE origin
           /\ IF generate_ok(r)
              THEN /\ tasks' = Put(tasks, id, task)
                   /\ coros' = Schedule(coros, id)
              ELSE UNCHANGED <<tasks, coros>>
    /\ returned' = Returned(generate_reply(r), "BREAK_PASS", "None", r)
    /\ pc' = [pc EXCEPT ![h] = "idle"]
    /\ args' = [args EXCEPT ![h] = NoArgs]
    /\ UNCHANGED <<enabled, temp_dict, tasks_lock, posts, sent>>

\* upscale, from the response of POST /operate to its return.  Nothing in
\* it acquires tasks_lock.
upscale(h, r) ==
    /\ pc[h] = "upscale_post"
    /\ LET id == IF Accepted(r) THEN remote_next ELSE 0
           key == UpscaleKey(args[h].img_id, args[h].index)
           task == MJTask(id, SessionId, "UPSCALE", NoText, "PENDING")
       IN  /\ remote_next' = IF Accepted(r) THEN remote_next + 1 ELSE remote_next
           /\ origin' = IF Accepted(r) THEN Put(origin, id, key) ELSE origin
           /\ IF upscale_ok(r)
              THEN LET run == upscale_success(Shared(tasks, temp_dict, coros),
                                              task, key)
                       done == run[Len(run)]
                   IN  /\ tasks' = done.tasks
                       /\ temp_dict' = done.temp_dict
                       /\ coros' = done.coros
              ELSE UNCHANGED <<tasks, temp_dict, coros>>
    /\ returned' = Returned(upscale_reply(r), "BREAK_PASS", "None", r)
    /\ pc' = [pc EXCEPT ![h] = "idle"]
    /\ args' = [args EXCEPT ![h] = NoArgs]
    /\ UNCHANGED <<enabled, tasks_lock, posts, sent>>

\* The framework takes e_context's reply (and sends it to the user).
TakeReply ==
    /\ returned # NoReturn
    /\ returned' = NoReturn
    /\ UNCHANGED <<enabled, tasks, temp_dict, tasks_lock, pc, args, posts,
                   remote_next, origin, coros, sent>>

\* ------------------------------------------------------------------ poller
\* Mutant: the delivery puts a new record, of no owner, in the place of the
\* registered one.
SuccessTaskDisowned(task) ==
    [task EXCEPT !.status = "FINISHED", !.img_id = Tok_img,
                 !.img_url = <<"u", "r", "l">>, !.user_id = "None"]

\* _process_success_task: the task after the update of its fields.
SuccessTask(task) ==
    [task EXCEPT !.status = "FINISHED", !.img_id = Tok_img, !.img_url = <<"u", "r", "l">>]

\* What _process_success_task works on: the task object and what channel._send
\* has got for it so far.
Delivery(task, out) == [task |-> task, out |-> out]

\* task.status = Status.FINISHED; task.img_id = ...; task.img_url = ...
UpdateFields(d) == [d EXCEPT !.task = SuccessTask(@)]

\* channel._send(Reply(ReplyType.IMAGE_URL, task.img_url), ...)
SendImage(d) == [d EXCEPT !.out = Append(@, "IMAGE_URL")]

\* if task.task_type == TaskType.GENERATE: channel._send(Reply(ReplyType.INFO, text), ...)
SendInfo(d) ==
    IF d.task.task_type = "GENERATE" THEN [d EXCEPT !.out = Append(@, "INFO")]
    ELSE d

\* Mutant: the image is sent before the record is updated.
process_success_task_send_first(task, out) ==
    LET d0 == Delivery(task, out)
        d1 == SendImage(d0)
        d2 == UpdateFields(d1)
        d3 == SendInfo(d2)
    IN  <<d0, d1, d2, d3>>

\* _process_success_task, statement by statement: what it works on at its
\* start and after each of its three blocks, in the order of the source.
\* It has no await, so the event loop runs it as one step.
process_success_task(task, out) ==
    LET d0 == Delivery(task, out)
        d1 == UpdateFields(d0)
        d2 == SendImage(d1)
        d3 == SendInfo(d2)
    IN  <<d0, d1, d2, d3>>

\* The replies the channel got for task id.
SentFor(id) == IF id \in DOMAIN sent THEN sent[id] ELSE <<>>

\* Mutant: an errored poll costs 10.
PenaltyTen(budget) == budget - 10

\* Mutant: an errored poll costs 21 before the sleep.
PenaltyTwentyOne(budget) == budget - 21

\* What one errored poll takes off the budget before the sleep.
Penalty(budget) == budget - ErrorPenalty

\* Mutant: the loop goes on at budget 0.
LoopContinuesAtZero(budget) == budget >= 0

\* The loop test of check_task.
LoopContinues(budget) == budget > 0

\* Mutant: the return after _process_success_task is missing.
AfterFinishedNoReturn == "sleep"

\* check_task returns right after _process_success_task.
AfterFinished == "finished"

\* Mutant: the end of the loop marks the task expired.
EndFromPollExpired(task) == [task EXCEPT !.status = "EXPIRED"]

\* Mutant: the end of the loop marks the task aborted.
EndFromPollAborted(task) == [task EXCEPT !.status = "ABORTED"]

\* The task when the loop ends without FINISHED: check_task only logs
\* "end from poll".
EndFromPoll(task) == task

\* check_task: the response of GET /tasks/{id} arrives.
check_task_get(c, r) ==
    /\ c \in DOMAIN coros
    /\ coros[c].pc = "get"
    /\ LET id == coros[c].task
       IN  IF r.status = 200
           THEN IF r.data = "FINISHED"
                THEN LET run == process_success_task(tasks[id], SentFor(id))
                         done == run[Len(run)]
                     IN  /\ tasks' = [tasks EXCEPT ![id] = done.task]
                         /\ sent' = Put(sent, id, done.out)
                         /\ coros' = [coros EXCEPT ![c].pc = AfterFinished]
                ELSE /\ coros' = [coros EXCEPT ![c].pc = "sleep",
                                               ![c].nwait = @ + 1]
                     /\ UNCHANGED <<tasks, sent>>
           ELSE /\ coros' = [coros EXCEPT ![c].pc = "sleep",
                                          ![c].nerr = @ + 1,
                                          ![c].max_retry_time = Penalty(@)]
                /\ UNCHANGED <<tasks, sent>>
    /\ UNCHANGED <<enabled, temp_dict, tasks_lock, pc, args, returned, posts,
                   remote_next, origin>>

\* check_task: asyncio.sleep(10) is over; the budget drops by one and the
\* loop test decides between the next GET and the end of the coroutine.
check_task_sleep(c) ==
    /\ c \in DOMAIN coros
    /\ coros[c].pc = "sleep"
    /\ LET budget == coros[c].max_retry_time - 1
           id == coros[c].task
       IN  /\ coros' = [coros EXCEPT ![c].max_retry_time = budget,
                                     ![c].pc = IF LoopContinues(budget)
                                               THEN "get" ELSE "exhausted"]
           /\ tasks' = IF LoopContinues(budget) THEN tasks
                       ELSE [tasks EXCEPT ![id] = EndFromPoll(@)]
    /\ UNCHANGED <<enabled, temp_dict, tasks_lock, pc, args, returned,
                   posts, remote_next, origin, sent>>

RECURSIVE PollsOf(_)
PollsOf(cs) ==
    IF cs = <<>> THEN 0
    ELSE cs[1].nerr + cs[1].nwait + PollsOf(Tail(cs))

\* Spec: the remote gives at most MaxPolls answers other than FINISHED.
PollAllowed(r) == r.data = "FINISHED" \/ PollsOf(coros) < MaxPolls

Handle == \E h \in Threads, m \in FewMessages :
              HandleMessage(h, m.type, m.content)
GenerateReturns == \E h \in Threads, r \in PostResponses : generate(h, r)
UpscaleReturns == \E h \in Threads, r \in PostResponses : upscale(h, r)
Poll == \E c \in DOMAIN coros, r \in PollResponses :
            PollAllowed(r) /\ check_task_get(c, r)
Wake == \E c \in DOMAIN coros : check_task_sleep(c)

Next == Handle \/ GenerateReturns \/ UpscaleReturns \/ TakeReply \/ Poll \/ Wake

Spec == Init /\ [][Next]_vars

\* One submission, polled with the whole budget and no cap on the answers;
\* the event loop runs forever and the remote answers every GET.
HandleOne == \E m \in Messages :
                 /\ HandleMessage("h1", m.type, m.content)
                 /\ posts = <<>> \/ posts' = posts
PollAny == \E c \in DOMAIN coros, r \in PollResponses : check_task_get(c, r)

NextPoll ==
    HandleOne \/ GenerateReturns \/ UpscaleReturns \/ TakeReply \/ PollAny \/ Wake

SpecPoll == Init /\ [][NextPoll]_vars /\ WF_vars(PollAny) /\ WF_vars(Wake)

\* The handler threads alone: the event loop thread never gets to run a step
\* of any coroutine, and the remote answers every POST.
NextHandlers == Handle \/ GenerateReturns \/ UpscaleReturns \/ TakeReply

SpecHandlers ==
    Init /\ [][NextHandlers]_vars
         /\ WF_vars(GenerateReturns) /\ WF_vars(UpscaleReturns)

\* ================================================================= claims
\* The text of an Upscale command for image Tok_img and index token tok.
UpscaleContent(tok) == <<Tok_mju, Tok_img, tok>>

\* The index tokens "1" .. "4", by their value.
IndexToken == << <<"1">>, <<"2">>, <<"3">>, <<"4">> >>

\* The coroutines scheduled for task id.
CorosOf(cs, id) == { c \in DOMAIN cs : cs[c].task = id }

\* C1: when POST /generate is answered HTTP 200 with code 200, the return of
\* generate leaves a Pending Task Record under the task id of the response
\* and has scheduled exactly one check_task coroutine for it.
C1_GenerateRegistersAndSchedules ==
    [][\A h \in Threads :
          (generate(h, [status_code |-> 200, code |-> 200])) =>
              /\ remote_next \in DOMAIN tasks'
              /\ tasks'[remote_next].id = remote_next
              /\ tasks'[remote_next].status = "PENDING"
              /\ tasks'[remote_next].task_type = "GENERATE"
              /\ Len(coros') = Len(coros) + 1
              /\ Cardinality(CorosOf(coros', remote_next)) = 1]_vars

C1_Witness ==
    /\ returned.res = [status_code |-> 200, code |-> 200]
    /\ returned.reply = GenerateAckReply
    /\ (remote_next - 1) \in DOMAIN tasks
    /\ tasks[remote_next - 1].task_type = "GENERATE"
    /\ tasks[remote_next - 1].status = "PENDING"
    /\ Cardinality(CorosOf(coros, remote_next - 1)) = 1

\* C2: an Upscale command whose key UPSCALE_{imgId}_{index} is marked when
\* it is processed makes no POST to /operate, registers no Task Record,
\* schedules nothing and gets the "already upscaled" reply.
C2_MarkedUpscaleIsRefused ==
    [][\A h \in Threads, i \in MinIndex..MaxIndex :
          (/\ enabled
           /\ UpscaleKey(Tok_img, i) \in temp_dict
           /\ HandleMessage(h, "TEXT", UpscaleContent(IndexToken[i]))) =>
              /\ posts' = posts
              /\ tasks' = tasks
              /\ coros' = coros
              /\ pc'[h] = "idle"
              /\ returned'.reply = AlreadyUpscaledReply]_vars

C2_Witness ==
    /\ returned.reply = AlreadyUpscaledReply
    /\ temp_dict # {}

\* C3: for one (imageId, index) pair at most one Upscale Task Record is
\* registered (at most one accepted /operate request), whatever the
\* interleaving of the handler threads.
C3_OneUpscalePerPair ==
    \A id1 \in DOMAIN tasks, id2 \in DOMAIN tasks :
        (/\ tasks[id1].task_type = "UPSCALE"
         /\ tasks[id2].task_type = "UPSCALE"
         /\ origin[id1] = origin[id2]) => id1 = id2

\* C4: an Upscale command with index 0, 5, -1 or a non-numeric index ends
\* without a POST to /operate; with index 1, 2, 3 or 4 and an unmarked pair
\* it is accepted and POSTs to /operate.
C4_IndexValidation ==
    [][\A h \in Threads :
          /\ \A tok \in {<<"0">>, <<"5">>, <<"-", "1">>, <<"x">>} :
                (enabled /\ HandleMessage(h, "TEXT", UpscaleContent(tok))) =>
                    /\ posts' = posts
                    /\ pc'[h] = "idle"
                    /\ tasks' = tasks
                    /\ \/ returned'.reply = IndexRangeReply
                       \/ returned'.exc = "ValueError"
          /\ \A i \in 1..4 :
                (/\ enabled
                 /\ UpscaleKey(Tok_img, i) \notin temp_dict
                 /\ HandleMessage(h, "TEXT", UpscaleContent(IndexToken[i]))) =>
                    /\ pc'[h] = "upscale_post"
                    /\ args'[h].index = i
                    /\ posts' = Posted(posts, "/operate", UpscaleKey(Tok_img, i))]_vars

C4_Witness ==
    /\ returned.exc = "ValueError"
    /\ <<"/operate", UpscaleKey(Tok_img, 4)>> \in DOMAIN posts

\* ------------------------------------------------------------ the poller
Terminal == {"finished", "exhausted"}

\* The loop iterations coroutine co has started: one per response it got,
\* and the one whose GET is under way or that ended the loop by FINISHED.
Iterations(co) ==
    co.nerr + co.nwait + (IF co.pc \in {"get", "finished"} THEN 1 ELSE 0)

NotFinishedResponses == { r \in PollResponses : r.data # "FINISHED" }
FinishedResponse == [status |-> 200, data |-> "FINISHED"]

\* The image replies among the replies sent for task id.
ImagesFor(id) ==
    { i \in DOMAIN SentFor(id) : SentFor(id)[i] = "IMAGE_URL" }

\* C5: check_task starts at most 80 loop iterations, every iteration that
\* does not end the loop lowers the budget by at least 1 (nothing on the
\* response, at least 1 after the sleep), a FINISHED response ends the
\* coroutine in the same iteration with no sleep and no further GET, and
\* every scheduled coroutine eventually ends.
C5_PollTerminates ==
    /\ [](\A c \in DOMAIN coros : Iterations(coros[c]) <= 80)
    /\ [][\A c \in DOMAIN coros :
             /\ \A r \in NotFinishedResponses :
                   check_task_get(c, r) =>
                       /\ coros'[c].pc = "sleep"
                       /\ coros'[c].max_retry_time <= coros[c].max_retry_time
             /\ check_task_sleep(c) =>
                   coros'[c].max_retry_time <= coros[c].max_retry_time - 1
             /\ check_task_get(c, FinishedResponse) =>
                   /\ coros'[c].pc = "finished"
                   /\ coros'[c].max_retry_time = coros[c].max_retry_time
             /\ coros[c].pc \in Terminal => coros'[c] = coros[c]]_vars
    /\ (coros # <<>>) ~> (\A c \in DOMAIN coros : coros[c].pc \in Terminal)

\* FINISHED seen on the 80th iteration, after 79 answers of "not finished".
C5_Witness ==
    \E c \in DOMAIN coros :
        /\ coros[c].pc = "finished"
        /\ coros[c].nerr + coros[c].nwait = 79

\* C6: with k non-200 and m 200-not-finished responses so far, a Generate
\* task's coroutine is still polling (so that a FINISHED response delivers)
\* only if 21*k + m < 80, has delivered only if 21*k + m < 80, and has given
\* up only if 21*k + m >= 80; a delivery is one image reply followed by one
\* info reply, and nothing is sent without it.
C6_DeliveredIffBudgetLeft ==
    \A c \in DOMAIN coros :
        LET co == coros[c]
            id == co.task
            cost == 21 * co.nerr + co.nwait
        IN  tasks[id].task_type = "GENERATE" =>
                /\ co.pc = "get" => cost < 80 /\ SentFor(id) = <<>>
                /\ co.pc = "sleep" => SentFor(id) = <<>>
                /\ co.pc = "finished" =>
                       cost < 80 /\ SentFor(id) = <<"IMAGE_URL", "INFO">>
                /\ co.pc = "exhausted" => cost >= 80 /\ SentFor(id) = <<>>

\* Three non-200 responses, then FINISHED: delivered, 63 of the budget used.
C6_Witness ==
    \E c \in DOMAIN coros :
        /\ tasks[coros[c].task].task_type = "GENERATE"
        /\ coros[c].pc = "finished"
        /\ coros[c].nerr = 3
        /\ coros[c].nwait = 0
        /\ coros[c].max_retry_time = 17
        /\ SentFor(coros[c].task) = <<"IMAGE_URL", "INFO">>

\* C7: for every registered task at most one image reply is ever sent, and
\* replies are sent only for registered tasks.
C7_NoDuplicateDelivery ==
    /\ DOMAIN sent \subseteq DOMAIN tasks
    /\ \A id \in DOMAIN tasks : Cardinality(ImagesFor(id)) <= 1

\* Two tasks, both delivered.
C7_Witness ==
    /\ Cardinality(DOMAIN tasks) = 2
    /\ \A id \in DOMAIN tasks :
          /\ tasks[id].status = "FINISHED"
          /\ Cardinality(ImagesFor(id)) = 1
    /\ \A c \in DOMAIN coros : coros[c].pc = "finished"

\* C8: once the budget is 0 or below no further GET is made; a coroutine
\* that gave up has sent nothing to the channel, its Task Record is Pending,
\* and it stays ended.
C8_ExhaustionIsSilent ==
    /\ [](\A c \in DOMAIN coros :
            /\ coros[c].max_retry_time <= 0 =>
                   coros[c].pc \in {"sleep", "exhausted"}
            /\ coros[c].pc = "exhausted" =>
                   /\ coros[c].max_retry_time <= 0
                   /\ SentFor(coros[c].task) = <<>>
                   /\ tasks[coros[c].task].status = "PENDING")
    /\ [][\A c \in DOMAIN coros :
             coros[c].pc = "exhausted" => coros'[c].pc = "exhausted"]_vars

\* Given up below 0: the fourth non-200 response took the budget to -4.
C8_Witness ==
    \E c \in DOMAIN coros :
        /\ coros[c].pc = "exhausted"
        /\ coros[c].max_retry_time < 0
        /\ tasks[coros[c].task].status = "PENDING"
        /\ returned = NoReturn

\* C9: when POST /generate is answered with HTTP other than 200, or with
\* HTTP 200 and a code other than 200, generate returns the error reply
\* "generation failed", registers nothing and schedules nothing.
C9_GenerateFailureReplies ==
    [][\A h \in Threads, r \in PostResponses :
          (~(r.status_code = 200 /\ r.code = 200) /\ generate(h, r)) =>
              /\ returned'.reply = FailedReply
              /\ tasks' = tasks
              /\ coros' = coros]_vars

\* C10: when POST /operate fails, upscale returns a reply: "please enter a
\* correct image ID" for HTTP 461, the generic failure reply for any other
\* status and for HTTP 200 with a code other than 200.
C10_UpscaleFailureReplies ==
    [][\A h \in Threads, r \in PostResponses :
          (~(r.status_code = 200 /\ r.code = 200) /\ upscale(h, r)) =>
              returned'.reply = IF r.status_code = 461 THEN ImageIdReply
                                ELSE FailedReply]_vars

\* --------------------------------------------------- handlers and registry
AckResponse == [status_code |-> 200, code |-> 200]

\* C11: a successful generate or upscale returns its acknowledgement to the
\* handler thread without waiting for the polling coroutine: the return step
\* can be taken whatever the coroutines have done, it leaves the task
\* Pending and its coroutine not started, it moves no other coroutine and
\* sends nothing; and with the event loop taking no step at all every
\* handler that entered a submission still gets back to idle, every
\* registered task staying Pending.
C11_AckWithoutPoller ==
    /\ [](\A h \in Threads :
            /\ pc[h] = "generate_post" => ENABLED generate(h, AckResponse)
            /\ pc[h] = "upscale_post" => ENABLED upscale(h, AckResponse))
    /\ [][\A h \in Threads :
             (generate(h, AckResponse) \/ upscale(h, AckResponse)) =>
                 /\ returned'.reply \in {GenerateAckReply, UpscaleAckReply}
                 /\ returned'.action = "BREAK_PASS"
                 /\ pc'[h] = "idle"
                 /\ tasks'[remote_next].status = "PENDING"
                 /\ \A c \in DOMAIN coros : coros'[c] = coros[c]
                 /\ \A c \in CorosOf(coros', remote_next) :
                        /\ coros'[c].pc = "get"
                        /\ coros'[c].nerr + coros'[c].nwait = 0
                 /\ sent' = sent]_vars
    /\ [](\A id \in DOMAIN tasks : tasks[id].status = "PENDING")
    /\ \A h \in Threads : (pc[h] # "idle") ~> (pc[h] = "idle")

\* Both acknowledgements given, no coroutine has made its first GET.
C11_Witness ==
    /\ returned.reply = UpscaleAckReply
    /\ Len(coros) = 2
    /\ \E id \in DOMAIN tasks : tasks[id].task_type = "GENERATE"
    /\ \A c \in DOMAIN coros :
          /\ coros[c].pc = "get"
          /\ coros[c].nerr + coros[c].nwait = 0
          /\ tasks[coros[c].task].status = "PENDING"
    /\ \A h \in Threads : pc[h] = "idle"

\* C12: the registry only grows.  A registered id stays registered in every
\* later state, under its own id and with the same owner, task type and
\* prompt; a step adds at most one record, only a successful submission adds
\* one, and it adds it under an id that was not registered before, so that
\* no record is registered twice, removed or replaced.
C12_RegistryOnlyGrows ==
    /\ [](\A id \in DOMAIN tasks : tasks[id].id = id)
    /\ [][/\ \A id \in DOMAIN tasks :
                /\ id \in DOMAIN tasks'
                /\ tasks'[id].id = id
                /\ tasks'[id].user_id = tasks[id].user_id
                /\ tasks'[id].task_type = tasks[id].task_type
                /\ tasks'[id].raw_prompt = tasks[id].raw_prompt
          /\ \A h \in Threads :
                (generate(h, AckResponse) \/ upscale(h, AckResponse)) =>
                    /\ remote_next \notin DOMAIN tasks
                    /\ DOMAIN tasks' = DOMAIN tasks \cup {remote_next}
          /\ DOMAIN tasks' # DOMAIN tasks =>
                \E h \in Threads :
                    generate(h, AckResponse) \/ upscale(h, AckResponse)]_vars

\* Two records, one of them delivered, and a refused command afterwards.
C12_Witness ==
    /\ Cardinality(DOMAIN tasks) = 2
    /\ \E id \in DOMAIN tasks :
          tasks[id].status = "FINISHED" /\ tasks[id].user_id = SessionId
    /\ \E id \in DOMAIN tasks : tasks[id].status = "PENDING"
    /\ returned.reply = AlreadyUpscaledReply

\* ------------------------------------------------- validation of commands
\* Index tokens that are integers outside 1..4, and the integer each of the
\* other integer tokens stands for ("02" is 2 for int()).
OutsideTokens == {<<"0">>, <<"5">>, <<"-", "1">>}
InsideTokens ==
    { [tok |-> IndexToken[i], index |-> i] : i \in MinIndex..MaxIndex }
    \cup { [tok |-> <<"0", "2">>, index |-> 2] }

\* A dispatch on thread h that ended in process_mj_task with this reply,
\* without a remote call and without a change to registry, marks or loop.
RefusedWith(h, reply) ==
    /\ returned'.reply = reply
    /\ returned'.exc = "None"
    /\ reply.type = "ERROR"
    /\ pc'[h] = "idle"
    /\ posts' = posts
    /\ tasks' = tasks /\ temp_dict' = temp_dict /\ coros' = coros

C14_DeliveryOrder ==
    /\ [][\A c \in DOMAIN coros :
             check_task_get(c, FinishedResponse) =>
                 LET id == coros[c].task
                     run == process_success_task(tasks[id], SentFor(id))
                 IN  /\ SentFor(id) = <<>>
                     /\ sent'[id] = IF tasks[id].task_type = "GENERATE"
                                     THEN <<"IMAGE_URL", "INFO">>
                                     ELSE <<"IMAGE_URL">>
                     /\ tasks[id].task_type \in {"GENERATE", "UPSCALE"}
                     /\ tasks'[id].status = "FINISHED"
                     /\ \A k \in DOMAIN run :
                            run[k].out # <<>> =>
                                /\ run[k].task.status = "FINISHED"
                                /\ run[k].out[1] = "IMAGE_URL"
                     /\ \A i \in DOMAIN sent \ {id} : sent'[i] = sent[i]]_vars
    /\ [](\A id \in DOMAIN sent :
            sent[id] # <<>> => tasks[id].status = "FINISHED")

\* A Generate task and an Upscale task, both delivered.
C14_Witness ==
    /\ \E id \in DOMAIN tasks :
          /\ tasks[id].task_type = "GENERATE"
          /\ SentFor(id) = <<"IMAGE_URL", "INFO">>
    /\ \E id \in DOMAIN tasks :
          /\ tasks[id].task_type = "UPSCALE"
          /\ SentFor(id) = <<"IMAGE_URL">>

\* ----------------------------------------------------------- classification
\* The first tokens that are prefix+"mj" and prefix+"mju" when case-folded.
GenerateTokens == {Tok_mj, Tok_MJ}
UpscaleTokens == {Tok_mju}

\* C15: judge_mj_task_type gives Generate exactly for a text message, with
\* the subsystem enabled, whose first token case-folded is prefix+"mj",
\* Upscale exactly when it is prefix+"mju", and no task type, returned
\* normally, for every other message.
C15_Classification ==
    [][\A h \in Threads, m \in Messages :
          HandleMessage(h, m.type, m.content) =>
              LET j == judge_mj_task_type(m.type, m.content, enabled)
                  tokens == IF m.content = <<>> THEN {} ELSE {m.content[1]}
                  applies == enabled /\ m.type = "TEXT"
              IN  /\ j.raised = "None"
                  /\ returned'.exc # "IndexError"
                  /\ j.type \in {"GENERATE", "UPSCALE", "None"}
                  /\ j.type = "GENERATE" <=>
                         (applies /\ tokens \cap GenerateTokens # {})
                  /\ j.type = "UPSCALE" <=>
                         (applies /\ tokens \cap UpscaleTokens # {})]_vars

\* ------------------------------------------------------------------ status
\* C16: every registered Task Record is Pending or Finished, also after its
\* poll gave up and after errored polls; a record is Pending when it is
\* registered, its status changes only from Pending to Finished, by the
\* poll that sees FINISHED, and a Finished record stays Finished.
C16_StatusLifecycle ==
    /\ [](\A id \in DOMAIN tasks : tasks[id].status \in {"PENDING", "FINISHED"})
    /\ [][/\ \A id \in DOMAIN tasks' \ DOMAIN tasks :
                tasks'[id].status = "PENDING"
          /\ \A id \in DOMAIN tasks \cap DOMAIN tasks' :
                /\ tasks[id].status = "FINISHED" => tasks'[id].status = "FINISHED"
                /\ tasks'[id].status # tasks[id].status =>
                       /\ tasks[id].status = "PENDING"
                       /\ tasks'[id].status = "FINISHED"
                       /\ \E c \in CorosOf(coros, id) :
                              check_task_get(c, FinishedResponse)]_vars

\* The poll gave up after three errored polls and seventeen unfinished ones.
C16_Witness ==
    \E c \in DOMAIN coros :
        /\ coros[c].pc = "exhausted"
        /\ coros[c].nerr = 3
        /\ coros[c].nwait = 17
        /\ tasks[coros[c].task].status = "PENDING"

\* ------------------------------------------------------------------ budget
OkNotFinishedResponses == { r \in NotFinishedResponses : r.status = 200 }
ErrorResponses == { r \in PollResponses : r.status # 200 }

\* C17: the budget of check_task starts at 80; an iteration that gets HTTP
\* 200 without FINISHED lowers it by 1 (nothing at the response, 1 after the
\* sleep), one that gets another HTTP status by 21 (20 at the response, 1
\* after the sleep), one that sees FINISHED leaves it as it is; so after k
\* errored and m unfinished iterations it is 80 - 21k - m, and a GET is
\* under way only with a budget above 0.
C17_BudgetAccounting ==
    /\ [](\A c \in DOMAIN coros :
            LET co == coros[c]
                spent == 21 * co.nerr + co.nwait
            IN  /\ co.pc \in {"get", "finished", "exhausted"} =>
                       co.max_retry_time = 80 - spent
                /\ co.pc = "sleep" => co.max_retry_time = 80 - spent + 1
                /\ co.pc = "get" => co.max_retry_time > 0
                /\ co.pc = "exhausted" => co.max_retry_time <= 0)
    /\ [][/\ \A c \in DOMAIN coros' \ DOMAIN coros :
                coros'[c].max_retry_time = 80 /\ coros'[c].pc = "get"
          /\ \A c \in DOMAIN coros :
                /\ check_task_get(c, FinishedResponse) =>
                       coros'[c].max_retry_time = coros[c].max_retry_time
                /\ \A r \in OkNotFinishedResponses :
                       check_task_get(c, r) =>
                           /\ coros'[c].max_retry_time = coros[c].max_retry_time
                           /\ coros'[c].pc = "sleep"
                /\ \A r \in ErrorResponses :
                       check_task_get(c, r) =>
                           /\ coros'[c].max_retry_time = coros[c].max_retry_time - 20
                           /\ coros'[c].pc = "sleep"
                /\ check_task_sleep(c) =>
                       /\ coros'[c].max_retry_time = coros[c].max_retry_time - 1
                       /\ coros'[c].pc = "get" <=> coros'[c].max_retry_time > 0]_vars

\* Two errored and three unfinished iterations: 35 left, next GET under way.
C17_Witness ==
    \E c \in DOMAIN coros :
        /\ coros[c].pc = "get"
        /\ coros[c].nerr = 2
        /\ coros[c].nwait = 3
        /\ coros[c].max_retry_time = 35

\* -------------------------------------------------------------------- lock
\* C18: every write to the registry, the registration by generate and by
\* upscale, is made by a handler thread that holds tasks_lock.
C18_RegistryWritesHoldLock ==
    [][\A h \in Threads :
          (generate(h, AckResponse) \/ upscale(h, AckResponse)) =>
              tasks_lock = h]_vars

\* ------------------------------------------------------------------ errors
\* What an error leaves alone: registry, dedup marks, coroutines, channel.
NoEffect ==
    /\ tasks' = tasks
    /\ temp_dict' = temp_dict
    /\ coros' = coros
    /\ sent' = sent

\* C19: a step that leaves an error reply for the user (no or missing
\* arguments, index out of range, duplicate upscale, failed submission) and
\* the return of a submission the remote did not accept, whatever it
\* replies, leave the registry and the dedup marks unchanged and schedule
\* no coroutine.
C19_ErrorsLeaveStateAlone ==
    [][/\ (returned' # returned /\ returned'.reply.type = "ERROR") =>
             /\ NoEffect
             /\ returned'.reply \in
                    {HelpReply, MissingParamsReply, IndexRangeReply,
                     AlreadyUpscaledReply, FailedReply, ImageIdReply}
       /\ \A h \in Threads, r \in PostResponses \ {AckResponse} :
             (generate(h, r) \/ upscale(h, r)) =>
                 /\ NoEffect
                 /\ returned'.reply.type \in {"ERROR", "None"}]_vars

\* A record, a mark and a coroutine exist, and a later Upscale of another
\* index was answered HTTP 461.
C19_Witness ==
    /\ returned.reply = ImageIdReply
    /\ returned.res.status_code = 461
    /\ temp_dict # {}
    /\ Cardinality(DOMAIN tasks) = 1
    /\ Len(coros) = 1

\* ------------------------------------------------------------- dedup marks
\* Every key of dict has an Upscale record in ts that the remote created
\* for the pair of the key.
MarksBacked(dict, ts, org) ==
    \A key \in dict :
        \E id \in DOMAIN ts :
            /\ ts[id].task_type = "UPSCALE"
            /\ id \in DOMAIN org
            /\ org[id] = key

\* C20: every marked key UPSCALE_{imgId}_{index} has a registered Upscale
\* record created for that pair, in every state and after every statement
\* of upscale's success block (the record is registered before the key is
\* marked); only an upscale whose POST /operate was accepted marks a key,
\* and it marks the key of its own pair; an upscale that failed marks
\* nothing; and a marked key stays marked.
C20_MarksFollowRegistration ==
    /\ [](MarksBacked(temp_dict, tasks, origin))
    /\ [][/\ temp_dict \subseteq temp_dict'
          /\ temp_dict' # temp_dict =>
                \E h \in Threads : upscale(h, AckResponse)
          /\ \A h \in Threads :
                /\ \A r \in PostResponses \ {AckResponse} :
                       upscale(h, r) => temp_dict' = temp_dict
                /\ upscale(h, AckResponse) =>
                       LET key == UpscaleKey(args[h].img_id, args[h].index)
                           run == upscale_success(Shared(tasks, temp_dict, coros),
                                                  tasks'[remote_next], key)
                       IN  /\ temp_dict' = temp_dict \cup {key}
                           /\ tasks'[remote_next].task_type = "UPSCALE"
                           /\ origin'[remote_next] = key
                           /\ \A k \in DOMAIN run :
                                  MarksBacked(run[k].temp_dict, run[k].tasks,
                                              origin')]_vars

\* Index 1 is marked; an Upscale of index 2 failed and left index 2 unmarked.
C20_Witness ==
    /\ UpscaleKey(Tok_img, 1) \in temp_dict
    /\ UpscaleKey(Tok_img, 2) \notin temp_dict
    /\ <<"/operate", UpscaleKey(Tok_img, 2)>> \in DOMAIN posts
    /\ returned.reply = FailedReply
    /\ \A h \in Threads : pc[h] = "idle"

====
